---- MODULE Spec2Model ----
(***************************************************************************)
(* The submission controller of src/src/App.tsx (the App component):       *)
(* the form state, handleSubmit with its 50 s abort timer and its 2 s /    *)
(* 3 s status resets, the Ctrl+Enter shortcut and the per-field setters.   *)
(*                                                                         *)
(* Every event-loop task (an event handler, a timer callback, the          *)
(* continuation of an await) is one action: React applies the setState     *)
(* calls of one task together, and no other task runs in between.          *)
(*                                                                         *)
(* Time is kept as the order in which the browser dispatches timers:       *)
(* `timers` lists the pending timers in the order they were armed, each    *)
(* with its delay, and a timer may fire only if no timer armed before it   *)
(* has a delay that is no longer (that one is due first).  The network     *)
(* answers at any moment, or never.                                        *)
(***************************************************************************)
EXTENDS Integers, Sequences, FiniteSets, TLC

\* Bounds of the model: handleSubmit invocations and field edits per run.
MaxSubmits == 3
MaxEdits == 4

\* Delays of the three setTimeout calls, in milliseconds.
SuccessResetDelay == 2000
ErrorResetDelay == 3000
TimeoutDelay == 50000

\* The one message the controller takes as confirmation (line 85).
AcceptedMessage == "Workflow was started"

\* The options of the two radio groups.
TrackingStatuses == {"Tracked", "Untracked"}
Stores == {"slidezz", "TT", "a2k"}

\* What the operator enters: the option picked in each radio group (the controller
\* tests a field for emptiness and copies it, and never looks at which option it
\* is), and the text typed or deleted in the text fields.
StatusChoices == {"Tracked"}
StoreChoices == {"a2k"}
OrderNumberInputs == {"", "ORD-1"}
LinkInputs == {"", "https://example.com"}
ActionInputs == {"", "refund"}

\* What the endpoint may answer: a status line, then a body (as JSON tokens).
HttpStatuses == {199, 200, 299, 300}
Bodies ==
  { <<"{", "message", ":", "Workflow was started", "}">>,
    <<"{", "message", ":", "Workflow failed", "}">>,
    <<"{", "message", ":", "Success", "}">>,
    <<"{", "status", ":", "Workflow was started", "}">>,
    <<"{", "id", ":", "7", ",", "message", ":", "Workflow was started", "}">>,
    <<"{", "}">>,
    <<"null">>,
    <<"{", "message", ":", "Workflow was started">>,
    <<>> }

VARIABLES
  formData,      \* useState<FormData>: the five fields of the form
  isSubmitting,  \* useState(false): a submission is shown as running
  submitStatus,  \* useState('idle'): 'idle' | 'success' | 'error'
  attempts,      \* one record per handleSubmit invocation, by invocation number
  timers,        \* pending setTimeout callbacks, in arming order
  nSubmits,      \* handleSubmit invocations so far
  nEdits,        \* field edits so far
  focusCount,    \* orderNumberRef.current.focus() calls made by handleSubmit's timers
  statusOwner,   \* the invocation that set the current 'success'/'error' (0: none)
  episode        \* the statuses shown since the last submit made from Idle

vars == <<formData, isSubmitting, submitStatus, attempts, timers, nSubmits,
          nEdits, focusCount, statusOwner, episode>>

Ids == 1..MaxSubmits

EmptyForm ==
  [OrderNumber |-> "", Status |-> "", Link |-> "", Store |-> "", Action |-> ""]

\* phase: "unused"   not invoked yet
\*        "fetching" awaiting fetch (line 68)
\*        "reading"  awaiting response.json() (line 80)
\*        "aborted"  controller.abort() rejected the exchange, and the endpoint
\*                   may still answer the request
\*        "done"     handleSubmit has returned and nothing of it is on the network
\* request: the body handed to fetch, while the exchange is outstanding
\* ok: response.ok, once the response head is there
NoAttempt == [phase |-> "unused", request |-> <<>>, ok |-> FALSE]
Finished(phase) == [phase |-> phase, request |-> <<>>, ok |-> FALSE]

Outstanding == {i \in Ids : attempts[i].phase \in {"fetching", "reading"}}

\* What the submit button shows (lines 336-355).
Status ==
  IF isSubmitting THEN "Submitting"
  ELSE IF submitStatus = "success" THEN "Success"
  ELSE IF submitStatus = "error" THEN "Error"
  ELSE "Idle"

\* JS truthiness of a string.
Truthy(s) == s # ""

\* Faulty variant, for testing the properties: the validation forgets the store.
SubmittableIgnoringStore(fd) == Truthy(fd.OrderNumber) /\ Truthy(fd.Status)

\* The validation of line 51, negated: the record goes to the network.
Submittable(fd) == Truthy(fd.OrderNumber) /\ Truthy(fd.Status) /\ Truthy(fd.Store)

\* Faulty variant, for testing the properties: the Action member is left out of the body.
JSONStringifyWithoutAction(fd) ==
  << <<"OrderNumber", fd.OrderNumber>>, <<"Status", fd.Status>>,
     <<"Link", fd.Link>>, <<"Store", fd.Store>> >>

\* JSON.stringify(formData): the members in the object's key order.
JSONStringify(fd) ==
  << <<"OrderNumber", fd.OrderNumber>>, <<"Status", fd.Status>>,
     <<"Link", fd.Link>>, <<"Store", fd.Store>>, <<"Action", fd.Action>> >>

\* response.ok: the status is in the range 200-299.
ResponseOk(status) == status >= 200 /\ status <= 299

Punctuation == {"{", "}", ":", ","}

\* response.json() on a body of tokens: null, or a flat object of string members.
\* valid = FALSE is the SyntaxError of a body that is no JSON.
WellFormedMembers(inner) ==
  /\ Len(inner) % 4 = 3
  /\ \A p \in 1..Len(inner) :
       CASE p % 4 = 1 -> inner[p] \notin Punctuation \cup {"null"}
         [] p % 4 = 2 -> inner[p] = ":"
         [] p % 4 = 3 -> inner[p] \notin Punctuation
         [] OTHER     -> inner[p] = ","

LastMember(inner, key) ==
  LET ps == {p \in 1..Len(inner) : p % 4 = 1 /\ inner[p] = key}
      p  == CHOOSE q \in ps : \A r \in ps : r <= q
  IN inner[p + 2]

JSONParse(toks) ==
  IF toks = <<"null">> THEN [valid |-> TRUE, isNull |-> TRUE, members |-> <<>>]
  ELSE IF toks = <<"{", "}">> THEN [valid |-> TRUE, isNull |-> FALSE, members |-> <<>>]
  ELSE IF /\ Len(toks) >= 5
          /\ toks[1] = "{"
          /\ toks[Len(toks)] = "}"
          /\ WellFormedMembers(SubSeq(toks, 2, Len(toks) - 1))
       THEN [valid |-> TRUE, isNull |-> FALSE,
             members |-> SubSeq(toks, 2, Len(toks) - 1)]
  ELSE [valid |-> FALSE, isNull |-> FALSE, members |-> <<>>]

HasMember(parsed, key) ==
  \E p \in 1..Len(parsed.members) : p % 4 = 1 /\ parsed.members[p] = key

\* Faulty variant, for testing the properties: the message of the other deployment is accepted as well.
MessageAcceptedEitherVariant(parsed) ==
  /\ HasMember(parsed, "message")
  /\ LastMember(parsed.members, "message") \in {AcceptedMessage, "Success"}

\* responseData.message === 'Workflow was started'
MessageAccepted(parsed) ==
  /\ HasMember(parsed, "message")
  /\ LastMember(parsed.members, "message") = AcceptedMessage

\* Lines 80-109 on a response head with response.ok = ok and the body toks:
\* "success" (lines 86-102), "rejected" (the else branch, lines 106-108), or
\* "thrown" (response.json() or a property read of null throws: lines 111-119).
Classify(ok, toks) ==
  LET parsed == JSONParse(toks) IN
  IF ~parsed.valid THEN "thrown"
  ELSE IF parsed.isNull THEN "thrown"
  ELSE IF ok /\ MessageAccepted(parsed) THEN "success"
  ELSE "rejected"

\* clearTimeout(timeoutId) of invocation i.
ClearTimeout(ts, i) ==
  SelectSeq(ts, LAMBDA t : ~(t.owner = i /\ t.kind = "abort"))

RemoveAt(ts, k) == SubSeq(ts, 1, k - 1) \o SubSeq(ts, k + 1, Len(ts))

\* The timer at position k is the next one due among those armed before it.
Due(ts, k) == \A j \in 1..(k - 1) : ts[j].delay > ts[k].delay

AbortTimer(i) == [owner |-> i, kind |-> "abort", delay |-> TimeoutDelay]
ErrorReset(i) == [owner |-> i, kind |-> "errorReset", delay |-> ErrorResetDelay]
SuccessReset(i) == [owner |-> i, kind |-> "successReset", delay |-> SuccessResetDelay]

Last(s) == s[Len(s)]

NoEpisode == [seq |-> <<>>, clean |-> FALSE, valid |-> FALSE]

\* The record of what the button showed: a submit made while it shows Idle opens
\* an episode, every change of what it shows is appended until it shows Idle
\* again, and another submit made before that ends the record.
Observe(submit, wasValid) ==
  LET old == Status
      new == Status'
      open == episode.clean /\ Last(episode.seq) # "Idle"
  IN episode' =
       IF submit /\ old = "Idle"
         THEN [seq |-> <<old, new>>, clean |-> TRUE, valid |-> wasValid]
       ELSE IF submit /\ open THEN NoEpisode
       ELSE IF open /\ new # Last(episode.seq)
         THEN [episode EXCEPT !.seq = Append(@, new)]
       ELSE episode

Init ==
  /\ formData = EmptyForm
  /\ isSubmitting = FALSE
  /\ submitStatus = "idle"
  /\ attempts = [i \in Ids |-> NoAttempt]
  /\ timers = <<>>
  /\ nSubmits = 0
  /\ nEdits = 0
  /\ focusCount = 0
  /\ statusOwner = 0
  /\ episode = NoEpisode

\* Faulty variant, for testing the properties: the setter without the spread of prev.
SetFieldClearsOthers(field, value) ==
  /\ nEdits < MaxEdits
  /\ formData[field] # value
  /\ formData' = [EmptyForm EXCEPT ![field] = value]
  /\ nEdits' = nEdits + 1
  /\ UNCHANGED <<isSubmitting, submitStatus, attempts, timers, nSubmits,
                 focusCount, statusOwner, episode>>

\* setFormData(prev => ({ ...prev, [field]: value }))
SetField(field, value) ==
  /\ nEdits < MaxEdits
  /\ formData[field] # value
  /\ formData' = [formData EXCEPT ![field] = value]
  /\ nEdits' = nEdits + 1
  /\ UNCHANGED <<isSubmitting, submitStatus, attempts, timers, nSubmits,
                 focusCount, statusOwner, episode>>

SetOrderNumber(v) == SetField("OrderNumber", v)
SetStatus(v) == SetField("Status", v)
SetLink(v) == SetField("Link", v)
SetStore(v) == SetField("Store", v)
SetAction(v) == SetField("Action", v)

\* Enter or Space on a radio label.
HandleRadioKeyDown(value, type) ==
  IF type = "status" THEN SetField("Status", value) ELSE SetField("Store", value)

\* handleSubmit up to its first await (lines 47-75).
HandleSubmit ==
  LET i == nSubmits + 1 IN
  /\ nSubmits < MaxSubmits
  /\ nSubmits' = i
  /\ IF ~Submittable(formData)
       THEN /\ submitStatus' = "error"
            /\ statusOwner' = i
            /\ timers' = Append(timers, ErrorReset(i))
            /\ attempts' = [attempts EXCEPT ![i] = Finished("done")]
            /\ UNCHANGED isSubmitting
       ELSE /\ isSubmitting' = TRUE
            /\ submitStatus' = "idle"
            /\ statusOwner' = 0
            /\ timers' = Append(timers, AbortTimer(i))
            /\ attempts' = [attempts EXCEPT ![i] =
                 [phase |-> "fetching", request |-> JSONStringify(formData),
                  ok |-> FALSE]]
  /\ UNCHANGED <<formData, nEdits, focusCount>>
  /\ Observe(TRUE, Submittable(formData))

\* The submit button (disabled while isSubmitting) or Enter in a text field.
FormSubmit ==
  /\ ~isSubmitting
  /\ HandleSubmit

\* handleKeyDown on Ctrl+Enter: handleSubmit is called directly.
KeyDownCtrlEnter == HandleSubmit

\* Faulty variant, for testing the properties: the success branch leaves the form as it is.
OnSuccessKeepsForm(i) ==
  /\ submitStatus' = "success"
  /\ statusOwner' = i
  /\ timers' = Append(timers, SuccessReset(i))
  /\ isSubmitting' = FALSE
  /\ attempts' = [attempts EXCEPT ![i] = Finished("done")]
  /\ UNCHANGED <<formData, nSubmits, nEdits, focusCount>>
  /\ Observe(FALSE, FALSE)

\* The success branch, then finally (lines 86-102, 122).
OnSuccess(i) ==
  /\ submitStatus' = "success"
  /\ statusOwner' = i
  /\ formData' = EmptyForm
  /\ timers' = Append(timers, SuccessReset(i))
  /\ isSubmitting' = FALSE
  /\ attempts' = [attempts EXCEPT ![i] = Finished("done")]
  /\ UNCHANGED <<nSubmits, nEdits, focusCount>>
  /\ Observe(FALSE, FALSE)

\* Faulty variant, for testing the properties: the else branch resets the form as the success branch does.
OnRejectedClearsForm(i) ==
  /\ submitStatus' = "error"
  /\ statusOwner' = i
  /\ formData' = EmptyForm
  /\ timers' = Append(timers, ErrorReset(i))
  /\ isSubmitting' = FALSE
  /\ attempts' = [attempts EXCEPT ![i] = Finished("done")]
  /\ UNCHANGED <<nSubmits, nEdits, focusCount>>
  /\ Observe(FALSE, FALSE)

\* The else branch (lines 106-108), then finally (line 122).
OnRejected(i) ==
  /\ submitStatus' = "error"
  /\ statusOwner' = i
  /\ timers' = Append(timers, ErrorReset(i))
  /\ isSubmitting' = FALSE
  /\ attempts' = [attempts EXCEPT ![i] = Finished("done")]
  /\ UNCHANGED <<formData, nSubmits, nEdits, focusCount>>
  /\ Observe(FALSE, FALSE)

\* Faulty variant, for testing the properties: the catch path leaves the abort timer armed.
OnCatchKeepsTimer(i) ==
  /\ submitStatus' = "error"
  /\ statusOwner' = i
  /\ timers' = Append(timers, ErrorReset(i))
  /\ isSubmitting' = FALSE
  /\ attempts' = [attempts EXCEPT ![i] = Finished("done")]
  /\ UNCHANGED <<formData, nSubmits, nEdits, focusCount>>
  /\ Observe(FALSE, FALSE)

\* Faulty variant, for testing the properties: the catch path without the finally block.
OnCatchKeepsSubmitting(i) ==
  /\ submitStatus' = "error"
  /\ statusOwner' = i
  /\ timers' = Append(ClearTimeout(timers, i), ErrorReset(i))
  /\ attempts' = [attempts EXCEPT ![i] = Finished("done")]
  /\ UNCHANGED <<formData, isSubmitting, nSubmits, nEdits, focusCount>>
  /\ Observe(FALSE, FALSE)

\* The catch block, then finally (lines 111-119, 122).
OnCatch(i) ==
  /\ submitStatus' = "error"
  /\ statusOwner' = i
  /\ timers' = Append(ClearTimeout(timers, i), ErrorReset(i))
  /\ isSubmitting' = FALSE
  /\ attempts' = [attempts EXCEPT ![i] = Finished("done")]
  /\ UNCHANGED <<formData, nSubmits, nEdits, focusCount>>
  /\ Observe(FALSE, FALSE)

\* fetch resolves with the response head; line 77 clears the abort timer and
\* line 80 starts to read the body.
FetchResolve(i, status) ==
  /\ attempts[i].phase = "fetching"
  /\ attempts' = [attempts EXCEPT ![i].phase = "reading", ![i].ok = ResponseOk(status)]
  /\ timers' = ClearTimeout(timers, i)
  /\ UNCHANGED <<formData, isSubmitting, submitStatus, nSubmits, nEdits,
                 focusCount, statusOwner>>
  /\ Observe(FALSE, FALSE)

\* fetch rejects: a transport failure.
FetchReject(i) ==
  /\ attempts[i].phase = "fetching"
  /\ OnCatch(i)

\* The body is complete: response.json() settles and lines 85-109 run.
BodyArrive(i, toks) ==
  /\ attempts[i].phase = "reading"
  /\ LET outcome == Classify(attempts[i].ok, toks) IN
       CASE outcome = "success"  -> OnSuccess(i)
         [] outcome = "rejected" -> OnRejected(i)
         [] OTHER                -> OnCatch(i)

\* The connection breaks while the body is read: response.json() rejects.
BodyFail(i) ==
  /\ attempts[i].phase = "reading"
  /\ OnCatch(i)

\* Faulty variant, for testing the properties: the answer to an aborted request still runs the success branch.
LateResponseApplied(i) ==
  /\ attempts[i].phase = "aborted"
  /\ OnSuccess(i)

\* The endpoint's answer to a request that was aborted: the promise was rejected
\* already, and the answer is dropped.
LateResponse(i) ==
  /\ attempts[i].phase = "aborted"
  /\ attempts' = [attempts EXCEPT ![i] = Finished("done")]
  /\ UNCHANGED <<formData, isSubmitting, submitStatus, timers, nSubmits, nEdits,
                 focusCount, statusOwner>>
  /\ Observe(FALSE, FALSE)

\* Faulty variant, for testing the properties: the error reset restores the focus too.
ErrorResetFireFocuses(k) ==
  /\ submitStatus' = "idle"
  /\ statusOwner' = 0
  /\ focusCount' = focusCount + 1
  /\ timers' = RemoveAt(timers, k)
  /\ UNCHANGED <<formData, isSubmitting, attempts, nSubmits, nEdits>>
  /\ Observe(FALSE, FALSE)

\* () => setSubmitStatus('idle')   (lines 53, 108, 119)
ErrorResetFire(k) ==
  /\ submitStatus' = "idle"
  /\ statusOwner' = 0
  /\ timers' = RemoveAt(timers, k)
  /\ UNCHANGED <<formData, isSubmitting, attempts, nSubmits, nEdits, focusCount>>
  /\ Observe(FALSE, FALSE)

\* () => { setSubmitStatus('idle'); orderNumberRef.current.focus() }  (lines 97-102)
SuccessResetFire(k) ==
  /\ submitStatus' = "idle"
  /\ statusOwner' = 0
  /\ focusCount' = focusCount + 1
  /\ timers' = RemoveAt(timers, k)
  /\ UNCHANGED <<formData, isSubmitting, attempts, nSubmits, nEdits>>
  /\ Observe(FALSE, FALSE)

\* () => { controller.abort() }  (lines 62-64): the pending fetch, or the pending
\* body read, rejects with an AbortError; a concluded exchange is not affected.
AbortFire(k) ==
  LET i == timers[k].owner IN
  IF attempts[i].phase \in {"fetching", "reading"}
    THEN /\ submitStatus' = "error"
         /\ statusOwner' = i
         /\ timers' = Append(ClearTimeout(RemoveAt(timers, k), i), ErrorReset(i))
         /\ isSubmitting' = FALSE
         /\ attempts' = [attempts EXCEPT ![i] = Finished("aborted")]
         /\ UNCHANGED <<formData, nSubmits, nEdits, focusCount>>
         /\ Observe(FALSE, FALSE)
    ELSE /\ timers' = RemoveAt(timers, k)
         /\ UNCHANGED <<formData, isSubmitting, submitStatus, attempts, nSubmits,
                        nEdits, focusCount, statusOwner>>
         /\ Observe(FALSE, FALSE)

\* The browser runs the callback of a due timer.
FireTimer(k) ==
  /\ Due(timers, k)
  /\ CASE timers[k].kind = "abort"        -> AbortFire(k)
       [] timers[k].kind = "successReset" -> SuccessResetFire(k)
       [] OTHER                           -> ErrorResetFire(k)

TimerStep == \E k \in DOMAIN timers : FireTimer(k)

Next ==
  \/ \E v \in OrderNumberInputs : SetOrderNumber(v)
  \/ \E v \in StatusChoices : SetStatus(v)
  \/ \E v \in LinkInputs : SetLink(v)
  \/ \E v \in StoreChoices : SetStore(v)
  \/ \E v \in ActionInputs : SetAction(v)
  \/ \E v \in StatusChoices : HandleRadioKeyDown(v, "status")
  \/ \E v \in StoreChoices : HandleRadioKeyDown(v, "store")
  \/ FormSubmit
  \/ KeyDownCtrlEnter
  \/ \E i \in Ids, s \in HttpStatuses : FetchResolve(i, s)
  \/ \E i \in Ids : FetchReject(i)
  \/ \E i \in Ids, b \in Bodies : BodyArrive(i, b)
  \/ \E i \in Ids : BodyFail(i)
  \/ \E i \in Ids : LateResponse(i)
  \/ TimerStep

Spec == Init /\ [][Next]_vars

\* Armed timers eventually fire; nothing is assumed of the operator or the endpoint.
FairSpec == Spec /\ WF_vars(TimerStep)

(***************************************************************************)
(* Helpers of the properties below.                                        *)
(***************************************************************************)

\* This step is an invocation of handleSubmit.
SubmitInvoked == nSubmits' # nSubmits

\* This step is the callback of the pending reset timer at position k.
ResetFires(k) ==
  /\ timers[k].kind \in {"errorReset", "successReset"}
  /\ timers' = RemoveAt(timers, k)

\* This step concludes the outstanding exchange of invocation i.
Concludes(i) == i \in Outstanding /\ i \notin Outstanding'

IsPrefix(s, t) == Len(s) <= Len(t) /\ s = SubSeq(t, 1, Len(s))

\* The bodies of Bodies that are JSON with a message member equal to the
\* accepted string.
ConfirmingBodies ==
  { <<"{", "message", ":", "Workflow was started", "}">>,
    <<"{", "id", ":", "7", ",", "message", ":", "Workflow was started", "}">> }

(***************************************************************************)
(* C1: invoking submit while the status is Submitting has no effect: no    *)
(* second exchange is started, and neither the status nor the record       *)
(* changes.  handleKeyDown calls handleSubmit without looking at           *)
(* isSubmitting, so Ctrl+Enter during a submission starts a second fetch.  *)
(***************************************************************************)
C1_SubmitWhileSubmittingHasNoEffect ==
  [][(Status = "Submitting" /\ SubmitInvoked) =>
       /\ Outstanding' = Outstanding
       /\ Cardinality(Outstanding') <= 1
       /\ Status' = Status
       /\ formData' = formData]_vars

(***************************************************************************)
(* C2: a reset timer scheduled by an earlier invocation never sets the     *)
(* status to idle after a later invocation has set its own success or      *)
(* error status.  The code never clears a reset timer, so the reset of an  *)
(* earlier attempt wipes the later attempt's status.                       *)
(***************************************************************************)
C2_EarlierResetNeverClobbers ==
  [][\A k \in DOMAIN timers :
       (/\ ResetFires(k)
        /\ submitStatus \in {"success", "error"}
        /\ timers[k].owner < statusOwner)
       => submitStatus' = submitStatus]_vars

(***************************************************************************)
(* C3: when the abort timer fires on an exchange that has produced no      *)
(* response, the request is aborted and the status becomes Error in that   *)
(* step, the record being left alone; an aborted exchange never becomes    *)
(* outstanding again, and the answer that arrives for it afterwards        *)
(* changes neither the status, the record nor the timers.                  *)
(***************************************************************************)
C3_TimeoutIsFinal ==
  [][\A i \in Ids :
       /\ (attempts[i].phase # "aborted" /\ attempts'[i].phase = "aborted") =>
            /\ attempts[i].phase = "fetching"
            /\ attempts'[i].request = <<>>
            /\ submitStatus' = "error"
            /\ statusOwner' = i
            /\ Status' = "Error"
            /\ formData' = formData
       /\ (attempts[i].phase = "aborted" /\ attempts'[i] # attempts[i]) =>
            /\ attempts'[i].phase = "done"
            /\ UNCHANGED <<submitStatus, isSubmitting, formData, timers, statusOwner>>]_vars

\* An exchange was aborted by its timer, the Error it set is showing, and the
\* endpoint's answer to it has not arrived yet.
C3_Witness ==
  \E i \in Ids :
    /\ attempts[i].phase = "aborted"
    /\ statusOwner = i
    /\ Status = "Error"
    /\ formData # EmptyForm

(***************************************************************************)
(* C4: after any submit invocation, if armed timers eventually fire (and   *)
(* whatever the endpoint does), the status is eventually Idle with the     *)
(* Submitting condition cleared.  Every submit leaves the status Error or  *)
(* Submitting, so this is: a status other than Idle leads to Idle.  The    *)
(* abort timer is cleared when the response head arrives, so an endpoint   *)
(* that never delivers the body leaves the status at Submitting.           *)
(***************************************************************************)
C4_EventuallyIdle == (Status # "Idle") ~> (Status = "Idle")

(***************************************************************************)
(* C5: a submit of a record whose orderNumber, trackingStatus or store is  *)
(* empty sets the status to error, does not set the Submitting condition   *)
(* and starts no exchange, whatever link and action hold; a submit of a    *)
(* record with these three fields set starts an exchange, whatever link    *)
(* and action hold.                                                        *)
(***************************************************************************)
C5_ValidationGatesTheCall ==
  [][SubmitInvoked =>
       IF formData.OrderNumber = "" \/ formData.Status = "" \/ formData.Store = ""
         THEN /\ submitStatus' = "error"
              /\ statusOwner' = nSubmits'
              /\ isSubmitting' = isSubmitting
              /\ Outstanding' = Outstanding
              /\ attempts'[nSubmits'] = Finished("done")
              /\ ~isSubmitting => Status' = "Error"
         ELSE /\ nSubmits' \in Outstanding'
              /\ Status' = "Submitting"]_vars

\* Only the link was entered, and the first submit was refused without a call.
C5_Witness ==
  /\ nSubmits = 1
  /\ nEdits = 1
  /\ formData.Link # ""
  /\ Status = "Error"
  /\ attempts[1] = Finished("done")
  /\ Outstanding = {}

(***************************************************************************)
(* C6: the outcome of an exchange is success exactly when the response     *)
(* status is in 200..299 and the body is JSON whose message member equals  *)
(* the accepted string; every other conclusion of an exchange (another     *)
(* status, another or no message, a body that is no JSON, a transport      *)
(* failure) is error.                                                      *)
(***************************************************************************)
C6_SuccessIffConfirmed ==
  [][\A i \in Ids :
       /\ (attempts[i].phase = "fetching" /\ attempts'[i].phase = "reading") =>
            \A s \in HttpStatuses :
              (attempts'[i].ok <=> s \in 200..299) \/ ~FetchResolve(i, s)
       /\ (attempts[i].phase = "reading" /\ attempts'[i].phase = "done") =>
            \A b \in Bodies :
              submitStatus' = (IF attempts[i].ok /\ b \in ConfirmingBodies
                                 THEN "success" ELSE "error")
              \/ ~BodyArrive(i, b)
       /\ (Concludes(i) /\ submitStatus' # "error") => ~(FetchReject(i) \/ BodyFail(i))
       /\ Concludes(i) => (submitStatus' \in {"success", "error"} /\ statusOwner' = i)]_vars

\* An exchange has concluded with success.
C6_Witness ==
  \E i \in Ids :
    /\ attempts[i].phase = "done"
    /\ statusOwner = i
    /\ submitStatus = "success"

(***************************************************************************)
(* C7: the step in which an exchange concludes with success shows Success, *)
(* leaves every field of the record empty, whatever the record held        *)
(* before, and arms the 2000 ms reset of that invocation; the callback of  *)
(* a success reset sets the status to idle.                                *)
(***************************************************************************)
C7_SuccessClearsRecord ==
  [][/\ \A i \in Ids :
          (Concludes(i) /\ submitStatus' = "success") =>
            /\ Status' = "Success"
            /\ formData' = EmptyForm
            /\ timers' = Append(timers, [owner |-> i, kind |-> "successReset",
                                         delay |-> 2000])
     /\ \A k \in DOMAIN timers :
          (timers[k].kind = "successReset" /\ ResetFires(k)) => submitStatus' = "idle"]_vars

\* Success is showing over an empty record, its reset pending, after the operator
\* had used every edit on the record.
C7_Witness ==
  \E i \in Ids :
    /\ Status = "Success"
    /\ statusOwner = i
    /\ formData = EmptyForm
    /\ nEdits = MaxEdits
    /\ SuccessReset(i) = Last(timers)

(***************************************************************************)
(* C8: every controller step that sets the status to error (the            *)
(* validation, a status outside 200..299, a transport failure, the         *)
(* timeout, a body that is no JSON, a rejected message) and every callback *)
(* of a 3000 ms reset leaves the five fields of the record unchanged; the  *)
(* error step arms the 3000 ms reset of that invocation.                   *)
(***************************************************************************)
C8_ErrorLeavesRecord ==
  [][/\ \A i \in Ids :
          (submitStatus' = "error" /\ statusOwner' = i /\ statusOwner # i) =>
            /\ formData' = formData
            /\ Last(timers') = [owner |-> i, kind |-> "errorReset", delay |-> 3000]
     /\ \A k \in DOMAIN timers :
          (timers[k].kind = "errorReset" /\ ResetFires(k)) =>
            (formData' = formData /\ submitStatus' = "idle")]_vars

\* An exchange has failed and the three fields the operator entered are still there.
C8_Witness ==
  \E i \in Ids :
    /\ Status = "Error"
    /\ statusOwner = i
    /\ nEdits = 3
    /\ formData.OrderNumber # "" /\ formData.Status # "" /\ formData.Store # ""

(***************************************************************************)
(* C9: a submit of a submittable record starts exactly one exchange, whose *)
(* body has exactly the members OrderNumber, Status, Link, Store, Action   *)
(* with the values the record holds at that moment (Status and Store one   *)
(* of the selectable values); no other step starts an exchange, and no     *)
(* step changes the body of an exchange that stays outstanding.            *)
(***************************************************************************)
C9_OneCallWithTheRecord ==
  [][/\ (SubmitInvoked /\ formData.OrderNumber # "" /\ formData.Status # ""
                       /\ formData.Store # "") =>
          /\ Outstanding' = Outstanding \cup {nSubmits'}
          /\ nSubmits' \notin Outstanding
          /\ attempts'[nSubmits'].request =
               << <<"OrderNumber", formData.OrderNumber>>,
                  <<"Status", formData.Status>>,
                  <<"Link", formData.Link>>,
                  <<"Store", formData.Store>>,
                  <<"Action", formData.Action>> >>
          /\ formData.Status \in TrackingStatuses
          /\ formData.Store \in Stores
     /\ ~SubmitInvoked => Outstanding' \subseteq Outstanding
     /\ \A i \in Outstanding \cap Outstanding' :
          attempts'[i].request = attempts[i].request]_vars

\* The record was edited after the call: the outstanding body still carries the
\* values of the moment of the submit.
C9_Witness ==
  \E i \in Outstanding :
    /\ Len(attempts[i].request) = 5
    /\ attempts[i].request # JSONStringify(formData)
    /\ formData # EmptyForm

(***************************************************************************)
(* C10: for a submit made while the status is Idle, with no other submit   *)
(* invoked until the status is Idle again, the statuses shown are          *)
(* Idle, Submitting, Success, Idle or Idle, Submitting, Error, Idle for a  *)
(* submittable record and Idle, Error, Idle for one that is not.  An       *)
(* exchange left outstanding by an earlier double submit (C1) concludes    *)
(* during the episode and shows its own outcome in it.                     *)
(***************************************************************************)
C10_StatusSequence ==
  episode.clean =>
    IF episode.valid
      THEN \/ IsPrefix(episode.seq, <<"Idle", "Submitting", "Success", "Idle">>)
           \/ IsPrefix(episode.seq, <<"Idle", "Submitting", "Error", "Idle">>)
      ELSE IsPrefix(episode.seq, <<"Idle", "Error", "Idle">>)

(***************************************************************************)
(* C11: the focus-first-field signal is emitted once for each success      *)
(* outcome, when that outcome's reset fires, and never because of an error *)
(* outcome: a success outcome arms one success reset and emits nothing,    *)
(* no other step arms one, a success reset leaves the timer queue only by  *)
(* firing, and the signal is emitted, once, exactly in the steps in which  *)
(* one success reset fires.                                                *)
(***************************************************************************)
SuccessResets(ts) == SelectSeq(ts, LAMBDA t : t.kind = "successReset")

C11_FocusOncePerSuccess ==
  [][\/ UNCHANGED <<timers, attempts, focusCount>>
     \/ /\ focusCount' # focusCount
        /\ focusCount' = focusCount + 1
        /\ \E k \in DOMAIN timers :
             timers[k].kind = "successReset" /\ timers' = RemoveAt(timers, k)
     \/ /\ focusCount' = focusCount
        /\ SuccessResets(timers') = SuccessResets(timers)
        /\ submitStatus' = "success" => \A i \in Ids : ~Concludes(i)
     \/ /\ focusCount' = focusCount
        /\ submitStatus' = "success"
        /\ \E i \in Ids :
             /\ Concludes(i)
             /\ \A k \in DOMAIN timers : timers[k] # SuccessReset(i)
             /\ SuccessResets(timers') = Append(SuccessResets(timers), SuccessReset(i))]_vars

\* Two submits, one confirmed and one failed, and every timer has fired: the
\* signal was emitted once.
C11_Witness ==
  /\ nSubmits = 2
  /\ Outstanding = {}
  /\ timers = <<>>
  /\ focusCount = 1

C13_AbortTimerArmedWhileOutstanding ==
  \A i \in Outstanding : \E k \in DOMAIN timers : timers[k] = AbortTimer(i)

(***************************************************************************)
(* C14: in the race between the response and the cancellation timer one    *)
(* side wins and the other is cancelled.  The step that concludes an       *)
(* exchange writes success or error and arms the one reset timer of that   *)
(* attempt; before that step the attempt has written no status and armed   *)
(* no reset, after it the attempt writes no status and arms no reset       *)
(* again; and the abort timer of an attempt that is not outstanding is not *)
(* in the timer queue.                                                     *)
(***************************************************************************)
Resets(ts, i) == SelectSeq(ts, LAMBDA t : t.owner = i /\ t.kind # "abort")

C14_OneSideWins ==
  /\ [](\A k \in DOMAIN timers :
          timers[k].kind = "abort" =>
            attempts[timers[k].owner].phase \in {"fetching", "reading"})
  /\ [][\/ UNCHANGED <<timers, attempts, statusOwner, submitStatus>>
        \/ \A i \in Ids :
             /\ Concludes(i) =>
                  /\ submitStatus' \in {"success", "error"}
                  /\ statusOwner' = i
                  /\ Len(Resets(timers, i)) = 0
                  /\ Len(Resets(timers', i)) = 1
             /\ (i \in Outstanding /\ i \in Outstanding') =>
                  /\ statusOwner' # i
                  /\ Len(Resets(timers', i)) = 0
             /\ attempts[i].phase \in {"done", "aborted"} =>
                  /\ statusOwner' = i => (statusOwner = i /\ UNCHANGED submitStatus)
                  /\ Len(Resets(timers', i)) <= Len(Resets(timers, i))]_vars

\* The timer won: the attempt was aborted before the endpoint answered, and
\* the one reset armed by the abort is the only timer left.
C14_Witness ==
  \E i \in Ids :
    /\ attempts[i].phase = "aborted"
    /\ statusOwner = i
    /\ submitStatus = "error"
    /\ timers = <<ErrorReset(i)>>
    /\ nSubmits = i
    /\ Submittable(formData)

(***************************************************************************)
(* C15: in every state, if a network exchange is outstanding then the      *)
(* Submitting flag is set (the submit control is disabled): the conclusion *)
(* of one exchange never clears the flag while another exchange is still   *)
(* outstanding.                                                            *)
(***************************************************************************)
C15_OutstandingImpliesSubmitting ==
  Outstanding # {} => isSubmitting

(***************************************************************************)
(* C16: the controller modifies the Record only by clearing it on a        *)
(* success outcome: every step of the controller (submit, response, timer) *)
(* that changes a field of the Record leaves the all-empty Record and is   *)
(* the step in which an exchange concludes with status success; every      *)
(* step of a field setter changes exactly its one field and leaves the     *)
(* other four fields, the status and the Submitting flag unchanged.        *)
(***************************************************************************)
Changed == {f \in DOMAIN formData : formData'[f] # formData[f]}

C16_RecordChangedOnlyBySuccess ==
  [][/\ (nEdits' = nEdits /\ Changed # {}) =>
          /\ formData' = EmptyForm
          /\ submitStatus' = "success"
          /\ Status' = "Success"
          /\ \E i \in Ids : Concludes(i)
     /\ nEdits' # nEdits =>
          /\ Cardinality(Changed) = 1
          /\ UNCHANGED <<submitStatus, isSubmitting>>]_vars

\* The success of an exchange has cleared the Record, and a setter has then
\* filled in one field while the status still shows the success.
C16_Witness ==
  /\ submitStatus = "success"
  /\ ~isSubmitting
  /\ nEdits = MaxEdits
  /\ Cardinality({f \in DOMAIN formData : formData[f] # ""}) = 1

====
